---- MODULE Spec2Model ----
(***************************************************************************)
(* labproject: the scatter-plot data transformer                           *)
(* (pages/jordanTool/transformers/transformScatterplotData.ts) and the     *)
(* chart host component DataViz (components/dataViz/index.tsx).            *)
(*                                                                         *)
(* JavaScript values are tagged records of one shape, so that null,        *)
(* undefined, strings and numbers can sit in the same field.  The metrics  *)
(* of the industry records are kept in tenths (0.8 is 8, 1 is 10, 5 is     *)
(* 50), which keeps fractional rca values exact; pixel sizes are whole.    *)
(***************************************************************************)
EXTENDS Integers, Sequences, FiniteSets, TLC

VARIABLES
    \* transformScatterplotData
    rawDatum,          \* input.rawDatum
    id,                \* input.id
    idx,               \* position of forEach in rawDatum (next element, 1-based)
    transformedData,   \* the list being built
    tpc,               \* "loop" while forEach runs, "returned" after return
    \* DataViz
    pc,                \* "unmounted" | "cleanup" | "effect" | "idle"
    props,             \* props of the current render
    windowWidth,       \* AppContext.windowWidth of the current render
    svgKey,            \* key of the <svg> element of the current render
    svgNodeRef,        \* svgNodeRef.current: a node id, or NoNode
    sizingNodeRef,     \* sizingNodeRef.current attached?
    tooltipNodeRef,    \* tooltipNodeRef.current attached?
    clientWidth,       \* sizingNode.clientWidth
    clientHeight,      \* sizingNode.clientHeight
    surface,           \* node id -> number of drawings held in its innerHTML
    nextNode,          \* id of the next DOM node to be created
    cleanupNode,       \* svgNode captured by the cleanup of the last effect
    passCalls,         \* draw primitives invoked by the effect of the current render
    prevSkipped,       \* the effect of the render before found a ref unset
    lastDrawn,         \* node the most recent draw went to, or NoNode
    downloadCall       \* arguments of the last downloadImage call

transformVars == <<rawDatum, id, idx, transformedData, tpc>>
hostVars == <<pc, props, windowWidth, svgKey, svgNodeRef, sizingNodeRef,
              tooltipNodeRef, clientWidth, clientHeight, surface, nextNode,
              cleanupNode, passCalls, prevSkipped, lastDrawn,
              downloadCall>>
vars == <<transformVars, hostVars>>

----------------------------------------------------------------------------
(* Bounds *)
MaxLen == 2        \* longest rawDatum
MaxNodes == 3      \* svg DOM nodes created over a run

----------------------------------------------------------------------------
(* JavaScript values *)
Null == [t |-> "null", n |-> 0, s |-> ""]
Undefined == [t |-> "undefined", n |-> 0, s |-> ""]
Num(n) == [t |-> "number", n |-> n, s |-> ""]
Str(s) == [t |-> "string", n |-> 0, s |-> s]

\* the literal 1 of `rca < 1`, in tenths
One == 10
\* the literal 0.5 of rgba(color, 0.5), in tenths
HalfAlpha == 5

\* ToBoolean, as applied by && to the fields of a record
Truthy(v) ==
    CASE v.t = "string" -> v.s # ""
      [] v.t = "number" -> v.n # 0
      [] v.t = "object" -> TRUE
      [] v.t = "array" -> TRUE
      [] OTHER -> FALSE

\* v !== null
NotStrictNull(v) == v.t # "null"

\* a < 1 : undefined converts to NaN and compares false (null never gets here)
LessThanOne(v) ==
    CASE v.t = "number" -> v.n < One
      [] OTHER -> FALSE

----------------------------------------------------------------------------
(* JordanIndustry records *)
Node(v, a, r) ==
    [t |-> "object", viability |-> v, attractiveness |-> a, rca |-> r]
NullNode ==
    [t |-> "null", viability |-> Undefined, attractiveness |-> Undefined,
     rca |-> Undefined]
Edge(node) == [t |-> "object", node |-> node]
NullEdge == [t |-> "null", node |-> NullNode]
Edges(items) == [t |-> "array", items |-> items]
NullEdges == [t |-> "null", items |-> <<>>]
Factors(edges) == [t |-> "object", edges |-> edges]
NullFactors == [t |-> "null", edges |-> NullEdges]

FactorsOf(v, a, r) == Factors(Edges(<<Edge(Node(v, a, r))>>))

Industry(code, title, keywords, description, factors) ==
    [industryCode |-> code, title |-> title, keywords |-> keywords,
     description |-> description, factors |-> factors]

GoodFactors == FactorsOf(Num(50), Num(70), Num(8))

\* records that carry every required field
GoodRecords ==
    { Industry(Str(c), Str(tt), Str("soft"), Str("desc"), FactorsOf(m[1], m[2], m[3])) :
        c \in {"A1", "a1"}, tt \in {"Tech"},
        m \in { <<Num(50), Num(70), Num(8)>>,
                <<Num(0), Num(0), Num(10)>>,
                <<Num(70), Num(50), Num(12)>> } }

\* one required string field null or empty
BadStringRecords ==
    { Industry(b, Str("Tech"), Str("soft"), Str("desc"), GoodFactors) : b \in {Null, Str("")} }
    \cup { Industry(Str("A1"), b, Str("soft"), Str("desc"), GoodFactors) : b \in {Null, Str("")} }
    \cup { Industry(Str("A1"), Str("Tech"), b, Str("desc"), GoodFactors) : b \in {Null, Str("")} }
    \cup { Industry(Str("A1"), Str("Tech"), Str("soft"), b, GoodFactors) : b \in {Null, Str("")} }

\* the factors chain broken at one level
BadFactorsRecords ==
    { Industry(Str("A1"), Str("Tech"), Str("soft"), Str("desc"), f) :
        f \in { NullFactors,
                Factors(NullEdges),
                Factors(Edges(<<>>)),
                Factors(Edges(<<NullEdge>>)),
                Factors(Edges(<<Edge(NullNode)>>)) } }

\* one metric of the first node null, or absent (undefined)
BadMetricRecords ==
    { Industry(Str("A1"), Str("Tech"), Str("soft"), Str("desc"), FactorsOf(m[1], m[2], m[3])) :
        m \in { <<b, Num(70), Num(8)>> : b \in {Null, Undefined} }
              \cup { <<Num(50), b, Num(8)>> : b \in {Null, Undefined} }
              \cup { <<Num(50), Num(70), b>> : b \in {Null, Undefined} } }

Records == GoodRecords \cup BadStringRecords \cup BadFactorsRecords \cup BadMetricRecords

Ids == {"A1", "Z9"}

SeqsUpTo(S, n) == UNION { [1..k -> S] : k \in 0..n }

----------------------------------------------------------------------------
(* transformScatterplotData *)

\* '#46899F' and '#E0B04E' as hex digits
ColorBelow == <<4, 6, 8, 9, 9, 15>>
ColorOther == <<14, 0, 11, 0, 4, 14>>

\* polished rgba(hex, alpha): the colour's channels with the alpha given
rgba(hex, alpha) ==
    [red |-> hex[1] * 16 + hex[2], green |-> hex[3] * 16 + hex[4],
     blue |-> hex[5] * 16 + hex[6], alpha |-> alpha]

\* factors.edges[0]: undefined when the array is empty
FirstEdge(edges) == IF Len(edges.items) >= 1 THEN edges.items[1] ELSE NullEdge

\* the guard of lines 21-24
PassesGuard(datum) ==
    /\ Truthy(datum.industryCode)
    /\ Truthy(datum.title)
    /\ Truthy(datum.keywords)
    /\ Truthy(datum.description)
    /\ Truthy(datum.factors)
    /\ Truthy(datum.factors.edges)
    /\ Truthy(FirstEdge(datum.factors.edges))
    /\ Truthy(FirstEdge(datum.factors.edges).node)
    /\ NotStrictNull(FirstEdge(datum.factors.edges).node.viability)
    /\ NotStrictNull(FirstEdge(datum.factors.edges).node.attractiveness)
    /\ NotStrictNull(FirstEdge(datum.factors.edges).node.rca)

\* the threshold taken inclusive: rca <= 1 ? '#46899F' : '#E0B04E'
ColorForInclusive(rca) ==
    IF rca.t = "number" /\ rca.n <= One THEN ColorBelow ELSE ColorOther

\* const color = rca < 1 ? '#46899F' : '#E0B04E'
ColorFor(rca) == IF LessThanOne(rca) THEN ColorBelow ELSE ColorOther

\* the comparison made without regard to case
UpperCase(str) == IF str = "a1" THEN "A1" ELSE str
HighlightedIgnoringCase(industryCode, selected) ==
    industryCode.t = "string" /\ UpperCase(industryCode.s) = UpperCase(selected)

\* industryCode === id
Highlighted(industryCode, selected) ==
    industryCode.t = "string" /\ industryCode.s = selected

\* the object pushed at lines 30-44
MakePoint(datum, selected) ==
    LET node == FirstEdge(datum.factors.edges).node
        x == node.viability
        y == node.attractiveness
    IN  [label |-> datum.title,
         x |-> x,
         y |-> y,
         fill |-> rgba(ColorFor(node.rca), HalfAlpha),
         highlighted |-> Highlighted(datum.industryCode, selected),
         tooltipContent |-> <<datum.description, datum.keywords, datum.title, x, y>>,
         tooltipContentOnly |-> TRUE,
         onClick |-> [value |-> datum.industryCode, label |-> datum.title]]

TransformInit ==
    /\ rawDatum \in SeqsUpTo(Records, MaxLen)
    /\ id \in Ids
    /\ idx = 1
    /\ transformedData = <<>>
    /\ tpc = "loop"

\* the callback with unshift in place of push
ForEachStepUnshift ==
    /\ tpc = "loop"
    /\ idx <= Len(rawDatum)
    /\ transformedData' =
         IF PassesGuard(rawDatum[idx])
         THEN <<MakePoint(rawDatum[idx], id)>> \o transformedData
         ELSE transformedData
    /\ idx' = idx + 1
    /\ UNCHANGED <<rawDatum, id, tpc>>
    /\ UNCHANGED hostVars

\* one call of the forEach callback
ForEachStep ==
    /\ tpc = "loop"
    /\ idx <= Len(rawDatum)
    /\ transformedData' =
         IF PassesGuard(rawDatum[idx])
         THEN Append(transformedData, MakePoint(rawDatum[idx], id))
         ELSE transformedData
    /\ idx' = idx + 1
    /\ UNCHANGED <<rawDatum, id, tpc>>
    /\ UNCHANGED hostVars

\* return transformedData
Return ==
    /\ tpc = "loop"
    /\ idx > Len(rawDatum)
    /\ tpc' = "returned"
    /\ UNCHANGED <<rawDatum, id, idx, transformedData>>
    /\ UNCHANGED hostVars

----------------------------------------------------------------------------
(* DataViz *)

NoNode == 0
Nodes == 1..MaxNodes

VizTypes == {"ScatterPlot", "BarChart", "RadarChart"}
\* a tag outside the enum, as an untyped caller can pass
OtherTag == "Other"

\* const highResMultiplier = 3
highResMultiplier == 3

\* container sizes <<clientWidth, clientHeight>>
Sizes == { <<800, 400>>, <<400, 800>>, <<400, 400>>, <<0, 400>>, <<800, 0>> }
WindowWidths == {1024, 1280}

PropsSet ==
    { [vizType |-> v, id |-> o[1], chartTitle |-> o[2], enableImageDownload |-> o[3]] :
        v \in VizTypes \cup {OtherTag},
        o \in { <<"a", "", TRUE>>, <<"b", "Sales", TRUE>>, <<"a", "Sales", FALSE>> } }

\* which of svgNodeRef, sizingNodeRef, tooltipNodeRef are set when the effect runs
RefStates ==
    { <<TRUE, TRUE, TRUE>>, <<FALSE, TRUE, TRUE>>, <<TRUE, FALSE, TRUE>>,
      <<TRUE, TRUE, FALSE>>, <<FALSE, FALSE, FALSE>> }

NoProps == [vizType |-> OtherTag, id |-> "", chartTitle |-> "", enableImageDownload |-> FALSE]
NoDownload ==
    [called |-> FALSE, svg |-> NoNode, width |-> Undefined, height |-> Undefined, title |-> ""]

\* key={id + windowWidth + 'svg'}
KeyOf(p, ww) == <<p.id, ww>>

\* the square taken on the larger side
RadarSizeLarger(w, h) == IF w > h THEN <<w, w>> ELSE <<h, h>>

\* width and height of the radar chart, lines 128-136
RadarSize(w, h) == IF w > h THEN <<h, h>> ELSE <<w, w>>

\* the chain with its else-ifs as plain ifs and a drawing last branch
DispatchFallThrough(vizType, node, w, h) ==
    (IF vizType = "ScatterPlot"
     THEN << [prim |-> "createScatterPlot", svg |-> node, width |-> w, height |-> h] >>
     ELSE << >>)
    \o (IF vizType = "BarChart"
        THEN << [prim |-> "createBarChart", svg |-> node, width |-> w, height |-> h] >>
        ELSE << [prim |-> "createRadarChart", svg |-> node,
                 width |-> RadarSize(w, h)[1], height |-> RadarSize(w, h)[2]] >>)

\* the if / else-if chain of lines 112-144: the draw calls of one pass
Dispatch(vizType, node, w, h) ==
    IF vizType = "ScatterPlot"
    THEN << [prim |-> "createScatterPlot", svg |-> node, width |-> w, height |-> h] >>
    ELSE IF vizType = "BarChart"
    THEN << [prim |-> "createBarChart", svg |-> node, width |-> w, height |-> h] >>
    ELSE IF vizType = "RadarChart"
    THEN << [prim |-> "createRadarChart", svg |-> node,
             width |-> RadarSize(w, h)[1], height |-> RadarSize(w, h)[2]] >>
    ELSE << >>

\* the guard without its tooltip test
RefsAttachedNoTooltip(svg, sizing, tooltip) == svg # NoNode /\ sizing

\* the guard of lines 106-107
RefsAttached(svg, sizing, tooltip) == svg # NoNode /\ sizing /\ tooltip

\* a cleanup that leaves the surface as it is
RunCleanupKeeps(surf, node) == surf

\* svgNode.innerHTML = '' in the cleanup returned at lines 146-150
RunCleanup(surf, node) ==
    IF node # NoNode THEN [surf EXCEPT ![node] = 0] ELSE surf

HostInit ==
    /\ pc = "unmounted"
    /\ props = NoProps
    /\ windowWidth = 0
    /\ svgKey = <<"", 0>>
    /\ svgNodeRef = NoNode
    /\ sizingNodeRef = FALSE
    /\ tooltipNodeRef = FALSE
    /\ clientWidth = 0
    /\ clientHeight = 0
    /\ surface = [n \in Nodes |-> 0]
    /\ nextNode = 1
    /\ cleanupNode = NoNode
    /\ passCalls = << >>
    /\ prevSkipped = FALSE
    /\ lastDrawn = NoNode
    /\ downloadCall = NoDownload

\* first render and commit: the elements are created and the refs attached
\* (each ref may still be unset when the effect runs, lines 106-107)
Mount ==
    /\ pc = "unmounted"
    /\ nextNode <= MaxNodes
    /\ \E p \in PropsSet, ww \in WindowWidths, sz \in Sizes, refs \in RefStates :
          /\ props' = p
          /\ windowWidth' = ww
          /\ svgKey' = KeyOf(p, ww)
          /\ svgNodeRef' = IF refs[1] THEN nextNode ELSE NoNode
          /\ sizingNodeRef' = refs[2]
          /\ tooltipNodeRef' = refs[3]
          /\ clientWidth' = sz[1]
          /\ clientHeight' = sz[2]
    /\ nextNode' = nextNode + 1
    /\ pc' = "effect"
    /\ downloadCall' = NoDownload
    /\ UNCHANGED <<surface, cleanupNode, passCalls, prevSkipped, lastDrawn>>
    /\ UNCHANGED transformVars

\* a later render and commit, for new props or a new windowWidth; a changed
\* key replaces the <svg> element by a new one (line 202)
Rerender ==
    /\ pc = "idle"
    /\ \E p \in PropsSet, ww \in WindowWidths, sz \in Sizes, refs \in RefStates :
          LET fresh == KeyOf(p, ww) # svgKey
              node == IF fresh THEN nextNode
                      ELSE IF svgNodeRef # NoNode THEN svgNodeRef
                      ELSE nextNode - 1
          IN  /\ fresh => nextNode <= MaxNodes
              /\ props' = p
              /\ windowWidth' = ww
              /\ svgKey' = KeyOf(p, ww)
              /\ svgNodeRef' = IF refs[1] THEN node ELSE NoNode
              /\ sizingNodeRef' = refs[2]
              /\ tooltipNodeRef' = refs[3]
              /\ clientWidth' = sz[1]
              /\ clientHeight' = sz[2]
              /\ nextNode' = IF fresh THEN nextNode + 1 ELSE nextNode
    /\ pc' = "cleanup"
    /\ passCalls' = << >>
    /\ prevSkipped' = ~RefsAttached(svgNodeRef, sizingNodeRef, tooltipNodeRef)
    /\ downloadCall' = NoDownload
    /\ UNCHANGED <<surface, cleanupNode, lastDrawn>>
    /\ UNCHANGED transformVars

\* the cleanup of the previous effect, run before the effect runs again
Cleanup ==
    /\ pc = "cleanup"
    /\ surface' = RunCleanup(surface, cleanupNode)
    /\ pc' = "effect"
    /\ UNCHANGED <<props, windowWidth, svgKey, svgNodeRef, sizingNodeRef,
                   tooltipNodeRef, clientWidth, clientHeight, nextNode,
                   cleanupNode, passCalls, prevSkipped, lastDrawn,
                   downloadCall>>
    /\ UNCHANGED transformVars

\* the effect, lines 104-151
Effect ==
    /\ pc = "effect"
    /\ LET attached == RefsAttached(svgNodeRef, sizingNodeRef, tooltipNodeRef)
           svgNode == IF attached THEN svgNodeRef ELSE NoNode
           calls == IF attached
                    THEN Dispatch(props.vizType, svgNode, clientWidth, clientHeight)
                    ELSE << >>
       IN  /\ passCalls' = calls
           /\ surface' = IF calls # << >>
                         THEN [surface EXCEPT ![svgNode] = @ + Len(calls)]
                         ELSE surface
           /\ lastDrawn' = IF calls # << >> THEN svgNode ELSE lastDrawn
           /\ cleanupNode' = svgNode
    /\ pc' = "idle"
    /\ UNCHANGED <<props, windowWidth, svgKey, svgNodeRef, sizingNodeRef,
                   tooltipNodeRef, clientWidth, clientHeight, nextNode,
                   prevSkipped, downloadCall>>
    /\ UNCHANGED transformVars

\* the radar branch without the square rule
ExportSizeNoSquare(vizType, sizing, w, h) ==
    << IF sizing /\ w # 0 THEN Num(w * highResMultiplier) ELSE Undefined,
       IF sizing /\ h # 0 THEN Num(h * highResMultiplier) ELSE Undefined >>

\* width and height computed at lines 157-170
ExportSize(vizType, sizing, w, h) ==
    IF vizType = "RadarChart" /\ sizing
    THEN IF w > h
         THEN <<Num(h * highResMultiplier), Num(h * highResMultiplier)>>
         ELSE <<Num(w * highResMultiplier), Num(w * highResMultiplier)>>
    ELSE << IF sizing /\ w # 0 THEN Num(w * highResMultiplier) ELSE Undefined,
            IF sizing /\ h # 0 THEN Num(h * highResMultiplier) ELSE Undefined >>

\* const title = props.chartTitle ? props.chartTitle : 'chart'
TitleOf(p) == IF p.chartTitle # "" THEN p.chartTitle ELSE "chart"

\* click on the Download Image button, lines 153-173
HandleDownloadImage ==
    /\ pc = "idle"
    /\ props.enableImageDownload
    /\ ~downloadCall.called
    /\ downloadCall' =
         [called |-> TRUE, svg |-> svgNodeRef,
          width |-> ExportSize(props.vizType, sizingNodeRef, clientWidth, clientHeight)[1],
          height |-> ExportSize(props.vizType, sizingNodeRef, clientWidth, clientHeight)[2],
          title |-> TitleOf(props)]
    /\ UNCHANGED <<pc, props, windowWidth, svgKey, svgNodeRef, sizingNodeRef,
                   tooltipNodeRef, clientWidth, clientHeight, surface, nextNode,
                   cleanupNode, passCalls, prevSkipped, lastDrawn>>
    /\ UNCHANGED transformVars

\* teardown: the refs are detached and the cleanup of the last effect runs
Unmount ==
    /\ pc = "idle"
    /\ surface' = RunCleanup(surface, cleanupNode)
    /\ pc' = "unmounted"
    /\ props' = NoProps
    /\ windowWidth' = 0
    /\ svgKey' = <<"", 0>>
    /\ svgNodeRef' = NoNode
    /\ sizingNodeRef' = FALSE
    /\ tooltipNodeRef' = FALSE
    /\ clientWidth' = 0
    /\ clientHeight' = 0
    /\ cleanupNode' = NoNode
    /\ passCalls' = << >>
    /\ prevSkipped' = FALSE
    /\ downloadCall' = NoDownload
    /\ UNCHANGED <<nextNode, lastDrawn>>
    /\ UNCHANGED transformVars

----------------------------------------------------------------------------
(* Specifications *)

TransformIdle ==
    /\ rawDatum = << >>
    /\ id = "A1"
    /\ idx = 1
    /\ transformedData = << >>
    /\ tpc = "returned"

TransformNext == ForEachStep \/ Return
HostNext == Mount \/ Rerender \/ Cleanup \/ Effect \/ HandleDownloadImage \/ Unmount

InitTransform == TransformInit /\ HostInit
InitHost == TransformIdle /\ HostInit

\* the transformer, run on every input list
SpecTransform == InitTransform /\ [][TransformNext]_vars
\* the chart host, over its mount lifetimes
SpecHost == InitHost /\ [][HostNext]_vars

----------------------------------------------------------------------------
(* Properties of transformScatterplotData *)

\* the records forEach has visited
Visited == SubSeq(rawDatum, 1, idx - 1)
\* the visited records the guard let through, in input order
Included == SelectSeq(Visited, PassesGuard)
MetricsOf(datum) == FirstEdge(datum.factors.edges).node

\* a record well-formed for plotting: the four strings present and not
\* empty, a first edge with a node, its three metrics present and not null
Present(v) == v.t = "string" /\ v.s # ""
HasMetric(v) == v.t = "number"
WellFormed(datum) ==
    /\ Present(datum.industryCode) /\ Present(datum.title)
    /\ Present(datum.keywords) /\ Present(datum.description)
    /\ datum.factors.t = "object"
    /\ datum.factors.edges.t = "array"
    /\ Len(datum.factors.edges.items) >= 1
    /\ datum.factors.edges.items[1].t = "object"
    /\ datum.factors.edges.items[1].node.t = "object"
    /\ HasMetric(datum.factors.edges.items[1].node.viability)
    /\ HasMetric(datum.factors.edges.items[1].node.attractiveness)
    /\ HasMetric(datum.factors.edges.items[1].node.rca)

\* C1: every record missing a required field (a string absent or empty, no
\* first edge or node, a metric absent or null) yields no point, and every
\* record with all of them yields exactly one: the points pushed so far are
\* as many as the well-formed records visited.
C1_OnlyWellFormedIncluded ==
    Len(transformedData) =
        Cardinality({ k \in 1..(idx - 1) : WellFormed(rawDatum[k]) })

\* C2: the output is the stable filter-map of the input: the k-th point comes
\* from the k-th included record in input order (label = title, x =
\* viability, y = attractiveness, unmodified), the output is never longer than
\* the input, and records sharing an industryCode are not merged.
C2_StableFilterMap ==
    /\ Len(transformedData) = Len(Included)
    /\ Len(transformedData) <= Len(rawDatum)
    /\ \A k \in 1..Len(transformedData) :
          k <= Len(Included) =>
            /\ transformedData[k].label = Included[k].title
            /\ transformedData[k].onClick.value = Included[k].industryCode
            /\ transformedData[k].x = MetricsOf(Included[k]).viability
            /\ transformedData[k].y = MetricsOf(Included[k]).attractiveness

\* two points of one industryCode, in input order, after a full run
C2_Witness ==
    /\ tpc = "returned"
    /\ Len(transformedData) = 2
    /\ transformedData[1].onClick.value = transformedData[2].onClick.value
    /\ transformedData[1].x = Num(0)
    /\ transformedData[2].x = Num(50)

\* C3: the fill of every point is '#46899F' (70, 137, 159) when the record's
\* rca is below 1 and '#E0B04E' (224, 176, 78) when it is 1 or more, always
\* with alpha 0.5.
C3_FillByRca ==
    \A k \in 1..Len(transformedData) :
        k <= Len(Included) =>
          LET rca == MetricsOf(Included[k]).rca
              fill == transformedData[k].fill
          IN  /\ fill.alpha = 5
              /\ (rca.t = "number" /\ rca.n < 10) =>
                    (fill.red = 70 /\ fill.green = 137 /\ fill.blue = 159)
              /\ (rca.t = "number" /\ rca.n >= 10) =>
                    (fill.red = 224 /\ fill.green = 176 /\ fill.blue = 78)

\* a point of rca 0.8 in colour A next to a point of rca exactly 1 in colour B
C3_Witness ==
    /\ tpc = "returned"
    /\ Len(transformedData) = 2
    /\ MetricsOf(rawDatum[1]).rca = Num(8)
    /\ transformedData[1].fill.red = 70
    /\ MetricsOf(rawDatum[2]).rca = Num(10)
    /\ transformedData[2].fill.red = 224

\* C4: a point is highlighted exactly when its record's industryCode is the
\* selected id, letter for letter; every point of a duplicated code is
\* highlighted, and none is when no code matches.
C4_HighlightedIffSelected ==
    \A k \in 1..Len(transformedData) :
        k <= Len(Included) =>
          (transformedData[k].highlighted <=> Included[k].industryCode = Str(id))

\* the selected code and the same code in another case: only the first is highlighted
C4_Witness ==
    /\ tpc = "returned"
    /\ Len(transformedData) = 2
    /\ id = "A1"
    /\ rawDatum[1].industryCode = Str("A1") /\ transformedData[1].highlighted
    /\ rawDatum[2].industryCode = Str("a1") /\ ~transformedData[2].highlighted

----------------------------------------------------------------------------
(* Properties of DataViz *)

\* C5: a pass that finds the three refs set invokes exactly one draw
\* primitive, the one of the chart-type tag; for a tag outside the three it
\* invokes none, and the pass still completes.
C5_ExactlyOneMatchingDraw ==
    (pc = "idle" /\ svgNodeRef # NoNode /\ sizingNodeRef /\ tooltipNodeRef) =>
        /\ props.vizType = "ScatterPlot" =>
              (Len(passCalls) = 1 /\ passCalls[1].prim = "createScatterPlot")
        /\ props.vizType = "BarChart" =>
              (Len(passCalls) = 1 /\ passCalls[1].prim = "createBarChart")
        /\ props.vizType = "RadarChart" =>
              (Len(passCalls) = 1 /\ passCalls[1].prim = "createRadarChart")
        /\ props.vizType \notin {"ScatterPlot", "BarChart", "RadarChart"} =>
              passCalls = << >>

\* a bar chart drawn by createBarChart alone
C5_Witness ==
    /\ pc = "idle"
    /\ props.vizType = "BarChart"
    /\ Len(passCalls) = 1
    /\ passCalls[1].prim = "createBarChart"
    /\ surface[svgNodeRef] = 1

\* C6: no surface ever holds the output of two draws, the surface a pass is
\* about to draw on is empty, and after unmount the last drawn surface is
\* empty.
C6_ClearedBetweenDraws ==
    /\ \A n \in Nodes : surface[n] <= 1
    /\ (pc = "effect" /\ svgNodeRef # NoNode) => surface[svgNodeRef] = 0
    /\ (pc = "unmounted" /\ lastDrawn # NoNode) => surface[lastDrawn] = 0

\* a re-render on the same <svg>: drawn by the pass before, cleared, about to be drawn again
C6_Witness ==
    /\ pc = "effect"
    /\ svgNodeRef # NoNode
    /\ cleanupNode = svgNodeRef
    /\ lastDrawn = svgNodeRef
    /\ surface[svgNodeRef] = 0
    /\ sizingNodeRef /\ tooltipNodeRef
    /\ props.vizType = "ScatterPlot"

\* C7: an effect that finds a ref unset invokes no primitive, leaves every
\* surface as it was, completes, and registers a cleanup that clears nothing;
\* the effect of a later render that finds all refs set draws.
C7_SkipWhenRefMissing ==
    [][ /\ (pc = "effect" /\ (svgNodeRef = NoNode \/ ~sizingNodeRef \/ ~tooltipNodeRef)) =>
              /\ passCalls' = << >>
              /\ surface' = surface
              /\ cleanupNode' = NoNode
              /\ pc' = "idle"
        /\ (pc = "effect" /\ prevSkipped /\ svgNodeRef # NoNode /\ sizingNodeRef
              /\ tooltipNodeRef /\ props.vizType \in VizTypes) =>
              /\ Len(passCalls') = 1
              /\ surface'[svgNodeRef] = 1
      ]_vars

\* a pass skipped for want of a ref, followed by a render whose effect drew
C7_Witness ==
    /\ pc = "idle"
    /\ prevSkipped
    /\ Len(passCalls) = 1
    /\ surface[svgNodeRef] = 1

\* C8: the size passed to the primitive is the container's (w, h) for scatter
\* and bar charts and (min(w,h), min(w,h)) for radar charts.
C8_DrawSize ==
    (pc = "idle" /\ passCalls # << >>) =>
        LET call == passCalls[1]
            w == clientWidth
            h == clientHeight
        IN  /\ props.vizType \in {"ScatterPlot", "BarChart"} =>
                  (call.width = w /\ call.height = h)
            /\ props.vizType = "RadarChart" =>
                  /\ call.width = call.height
                  /\ call.width <= w /\ call.width <= h
                  /\ call.width = w \/ call.width = h

\* a radar chart in an 800x400 container, drawn 400x400
C8_Witness ==
    /\ pc = "idle"
    /\ props.vizType = "RadarChart"
    /\ clientWidth = 800 /\ clientHeight = 400
    /\ Len(passCalls) = 1
    /\ passCalls[1].width = 400 /\ passCalls[1].height = 400

\* C9: for a measurable container the width and height handed to
\* downloadImage are 3 times the on-screen draw size of the chart type:
\* (3w, 3h) for scatter and bar, (3 min(w,h), 3 min(w,h)) for radar.
C9_ExportIsThreeTimesDrawSize ==
    (downloadCall.called /\ sizingNodeRef /\ clientWidth > 0 /\ clientHeight > 0) =>
        LET w == clientWidth
            h == clientHeight
            m == IF w < h THEN w ELSE h
        IN  /\ props.vizType \in {"ScatterPlot", "BarChart"} =>
                  (downloadCall.width = Num(3 * w) /\ downloadCall.height = Num(3 * h))
            /\ props.vizType = "RadarChart" =>
                  (downloadCall.width = Num(3 * m) /\ downloadCall.height = Num(3 * m))
            /\ passCalls # << >> =>
                  /\ downloadCall.width = Num(3 * passCalls[1].width)
                  /\ downloadCall.height = Num(3 * passCalls[1].height)

\* a radar chart in an 800x400 container, drawn 400x400 and exported 1200x1200
C9_Witness ==
    /\ downloadCall.called
    /\ props.vizType = "RadarChart"
    /\ clientWidth = 800 /\ clientHeight = 400
    /\ Len(passCalls) = 1 /\ passCalls[1].width = 400
    /\ downloadCall.width = Num(1200) /\ downloadCall.height = Num(1200)

\* C10: for every chart type, a dimension the container does not have (the
\* sizing ref unset, or clientWidth / clientHeight 0) reaches downloadImage
\* as undefined, never as a number.
C10_UndefinedWhenUnmeasurable ==
    downloadCall.called =>
        /\ (~sizingNodeRef \/ clientWidth = 0) => downloadCall.width = Undefined
        /\ (~sizingNodeRef \/ clientHeight = 0) => downloadCall.height = Undefined

====
